---- MODULE Spec2Model ----
(***************************************************************************)
(* The character rules and summoned-creature lifecycle of app.py.          *)
(*                                                                         *)
(* Texts (form values, catalog texts, names) are sequences of one-         *)
(* character strings, so that int(), str.lower(), str.split() and the      *)
(* regular expressions of parse_hit_points are computed, not assumed.      *)
(* Python dicts are functions whose DOMAIN is the set of keys present:     *)
(* d.get(k, default) is Get(d, k, default).                                *)
(***************************************************************************)
EXTENDS Integers, Sequences, FiniteSets, TLC

VARIABLES
    monsters,    \* the catalog load_srd_monsters() returns (read-only data)
    character,   \* the persisted player data (player_data.json)
    summoned,    \* session['summoned']: creature id -> instance dict
    last,        \* the request handled last: route, argument and form
    response     \* the HTTP status of the response to it

vars == <<monsters, character, summoned, last, response>>

(***************************************************************************)
(* Bounds of the model.                                                    *)
(***************************************************************************)
\* uuid4() values available to a session: summon needs one fresh id each
MaxIds == 2
\* class rows a character form or an import carries
MaxClasses == 2
\* length of the catalog hit-points texts enumerated for parse_hit_points
MaxLen == 3

(***************************************************************************)
(* Dicts and texts.                                                        *)
(***************************************************************************)
Get(d, k, default) == IF k \in DOMAIN d THEN d[k] ELSE default

Put(d, k, v) == [x \in DOMAIN d \cup {k} |-> IF x = k THEN v ELSE d[x]]

Del(d, k) == [x \in DOMAIN d \ {k} |-> d[x]]

EmptyDict == [x \in {} |-> 0]

DigitChars == <<"0", "1", "2", "3", "4", "5", "6", "7", "8", "9">>

IsDigit(c) == \E n \in 1..10 : DigitChars[n] = c

DigitVal(c) == (CHOOSE n \in 1..10 : DigitChars[n] = c) - 1

IsSpace(c) == c = " "

UpperChars == <<"A", "B", "C", "D", "E", "F", "G", "H", "I", "J", "K", "L", "M",
                "N", "O", "P", "Q", "R", "S", "T", "U", "V", "W", "X", "Y", "Z">>

LowerChars == <<"a", "b", "c", "d", "e", "f", "g", "h", "i", "j", "k", "l", "m",
                "n", "o", "p", "q", "r", "s", "t", "u", "v", "w", "x", "y", "z">>

LowerChar(c) ==
    IF \E n \in 1..26 : UpperChars[n] = c
    THEN LowerChars[CHOOSE n \in 1..26 : UpperChars[n] = c]
    ELSE c

\* str.lower()
Lower(s) == [i \in 1..Len(s) |-> LowerChar(s[i])]

\* str.strip()
RECURSIVE LStrip(_)
LStrip(s) == IF s # <<>> /\ IsSpace(Head(s)) THEN LStrip(Tail(s)) ELSE s

RECURSIVE RStrip(_)
RStrip(s) ==
    IF s # <<>> /\ IsSpace(s[Len(s)]) THEN RStrip(SubSeq(s, 1, Len(s) - 1)) ELSE s

Strip(s) == RStrip(LStrip(s))

AllDigits(s) == \A i \in 1..Len(s) : IsDigit(s[i])

\* the value of a run of decimal digits
RECURSIVE DigitsValue(_)
DigitsValue(s) ==
    IF s = <<>> THEN 0
    ELSE 10 * DigitsValue(SubSeq(s, 1, Len(s) - 1)) + DigitVal(s[Len(s)])

\* int(text): surrounding whitespace stripped, an optional sign, then at least
\* one decimal digit and nothing else; anything else raises ValueError
\* (ok = FALSE).  Digit-group underscores are not modelled.
ParseInt(s) ==
    LET t == Strip(s)
        signed == t # <<>> /\ Head(t) \in {"+", "-"}
        body == IF signed THEN Tail(t) ELSE t
    IN  IF body # <<>> /\ AllDigits(body)
        THEN [ok |-> TRUE,
              val |-> IF signed /\ Head(t) = "-" THEN 0 - DigitsValue(body)
                      ELSE DigitsValue(body)]
        ELSE [ok |-> FALSE, val |-> 0]

\* the last index of the maximal run of digits that starts at i (i - 1 if none)
RECURSIVE DigitRunEnd(_, _)
DigitRunEnd(s, i) ==
    IF i <= Len(s) /\ IsDigit(s[i]) THEN DigitRunEnd(s, i + 1) ELSE i - 1

\* re.match(r'(\d+)', s): the digits s starts with, <<>> when there is no match
MatchLeadingDigits(s) == SubSeq(s, 1, DigitRunEnd(s, 1))

\* r'(\d+d\d+)' tried at position i: greedy digits, a "d", greedy digits
DiceMatchEnd(s, i) ==
    LET j == DigitRunEnd(s, i)
        k == DigitRunEnd(s, j + 2)
    IN  IF j >= i /\ j + 1 <= Len(s) /\ s[j + 1] = "d" /\ k >= j + 2 THEN k ELSE 0

\* re.search(r'(\d+d\d+)', s) from position i: the leftmost match, <<>> if none
RECURSIVE SearchDice(_, _)
SearchDice(s, i) ==
    IF i > Len(s) THEN <<>>
    ELSE IF DiceMatchEnd(s, i) > 0 THEN SubSeq(s, i, DiceMatchEnd(s, i))
    ELSE SearchDice(s, i + 1)

parse_hit_points(hit_points_str) ==
    LET hp_max_match == MatchLeadingDigits(hit_points_str)
        dice_match == SearchDice(hit_points_str, 1)
    IN  [hp_max |-> IF hp_max_match # <<>> THEN DigitsValue(hp_max_match) ELSE 0,
         hit_dice |-> dice_match]

\* hit_dice.split('d')[0]: the text before the first "d"
RECURSIVE BeforeFirstD(_)
BeforeFirstD(s) ==
    IF s = <<>> \/ Head(s) = "d" THEN <<>> ELSE <<Head(s)>> \o BeforeFirstD(Tail(s))

(***************************************************************************)
(* Rule tables.                                                            *)
(***************************************************************************)
Barbarian == <<"B", "a", "r", "b", "a", "r", "i", "a", "n">>
Bard == <<"B", "a", "r", "d">>
Cleric == <<"C", "l", "e", "r", "i", "c">>
Druid == <<"D", "r", "u", "i", "d">>
Fighter == <<"F", "i", "g", "h", "t", "e", "r">>
Monk == <<"M", "o", "n", "k">>
Paladin == <<"P", "a", "l", "a", "d", "i", "n">>
Ranger == <<"R", "a", "n", "g", "e", "r">>
Rogue == <<"R", "o", "g", "u", "e">>
Sorcerer == <<"S", "o", "r", "c", "e", "r", "e", "r">>
Warlock == <<"W", "a", "r", "l", "o", "c", "k">>
Wizard == <<"W", "i", "z", "a", "r", "d">>

MULTICLASS_PREREQUISITES ==
    (Barbarian :> [strength |-> 13]) @@ (Bard :> [charisma |-> 13]) @@
    (Cleric :> [wisdom |-> 13]) @@ (Druid :> [wisdom |-> 13]) @@
    (Fighter :> [strength |-> 13]) @@
    (Monk :> [dexterity |-> 13, wisdom |-> 13]) @@
    (Paladin :> [strength |-> 13, charisma |-> 13]) @@
    (Ranger :> [dexterity |-> 13, wisdom |-> 13]) @@
    (Rogue :> [dexterity |-> 13]) @@ (Sorcerer :> [charisma |-> 13]) @@
    (Warlock :> [charisma |-> 13]) @@ (Wizard :> [intelligence |-> 13])

\* the multipliers 1, 0.5, 0.34 and 0, in hundredths
SPELLCASTER_MULTIPLIERS == [full |-> 100, half |-> 50, third |-> 34, none |-> 0]

CLASS_HIT_DICE ==
    (Barbarian :> "d12") @@ (Bard :> "d8") @@ (Cleric :> "d8") @@ (Druid :> "d8") @@
    (Fighter :> "d10") @@ (Monk :> "d8") @@ (Paladin :> "d10") @@ (Ranger :> "d10") @@
    (Rogue :> "d8") @@ (Sorcerer :> "d6") @@ (Warlock :> "d8") @@ (Wizard :> "d6")

CLASS_SPELLCASTING ==
    (Barbarian :> "none") @@ (Bard :> "full") @@ (Cleric :> "full") @@
    (Druid :> "full") @@ (Fighter :> "none") @@ (Monk :> "none") @@
    (Paladin :> "half") @@ (Ranger :> "half") @@ (Rogue :> "none") @@
    (Sorcerer :> "full") @@ (Warlock :> "pact") @@ (Wizard :> "full")

MULTICLASS_SPELL_SLOTS ==
    <<  <<2, 0, 0, 0, 0, 0, 0, 0, 0>>, <<3, 0, 0, 0, 0, 0, 0, 0, 0>>,
        <<4, 2, 0, 0, 0, 0, 0, 0, 0>>, <<4, 3, 0, 0, 0, 0, 0, 0, 0>>,
        <<4, 3, 2, 0, 0, 0, 0, 0, 0>>, <<4, 3, 3, 0, 0, 0, 0, 0, 0>>,
        <<4, 3, 3, 1, 0, 0, 0, 0, 0>>, <<4, 3, 3, 2, 0, 0, 0, 0, 0>>,
        <<4, 3, 3, 3, 1, 0, 0, 0, 0>>, <<4, 3, 3, 3, 2, 0, 0, 0, 0>>,
        <<4, 3, 3, 3, 2, 1, 0, 0, 0>>, <<4, 3, 3, 3, 2, 1, 0, 0, 0>>,
        <<4, 3, 3, 3, 2, 1, 1, 0, 0>>, <<4, 3, 3, 3, 2, 1, 1, 0, 0>>,
        <<4, 3, 3, 3, 2, 1, 1, 1, 0>>, <<4, 3, 3, 3, 2, 1, 1, 1, 0>>,
        <<4, 3, 3, 3, 2, 1, 1, 1, 1>>, <<4, 3, 3, 3, 3, 1, 1, 1, 1>>,
        <<4, 3, 3, 3, 3, 2, 1, 1, 1>>, <<4, 3, 3, 3, 3, 2, 2, 1, 1>>  >>

\* The player data of a fresh install.  The descriptive fields (name, race,
\* background, alignment, experience, max_hp, current_hp, ac, speed,
\* inspiration, features, equipment, proficiencies, spells_known_by_class,
\* dndbeyond_sync) are copied by the handlers and read by nothing modelled
\* here; they are left out.
DEFAULT_PLAYER_DATA ==
    [classes |-> <<>>,
     total_level |-> 0,
     ability_scores |-> [strength |-> 10, dexterity |-> 10, constitution |-> 10,
                         intelligence |-> 10, wisdom |-> 10, charisma |-> 10],
     hit_dice |-> EmptyDict,
     proficiency_bonus |-> 2,
     spellcasting |-> [spellcaster_level |-> 0, spell_slots |-> EmptyDict],
     class_features |-> [mighty_summoner |-> FALSE, guardian_spirit |-> FALSE,
                         faithful_summons |-> FALSE, bear_spirit_active |-> FALSE]]

(***************************************************************************)
(* Character derivation.                                                   *)
(***************************************************************************)
\* calculate_proficiency_bonus with each breakpoint one level late
calculate_proficiency_bonus_late(total_level) ==
    IF total_level > 17 THEN 6
    ELSE IF total_level > 13 THEN 5
    ELSE IF total_level > 9 THEN 4
    ELSE IF total_level > 5 THEN 3
    ELSE 2

calculate_proficiency_bonus(total_level) ==
    IF total_level >= 17 THEN 6
    ELSE IF total_level >= 13 THEN 5
    ELSE IF total_level >= 9 THEN 4
    ELSE IF total_level >= 5 THEN 3
    ELSE 2

\* int(x) for x = hundredths / 100: truncation toward zero
IntOfHundredths(hundredths) ==
    IF hundredths >= 0 THEN hundredths \div 100 ELSE 0 - ((0 - hundredths) \div 100)

\* the running total of calculate_spellcaster_level, in hundredths; int() of
\* the float total and of this exact total agree for up to three classes of
\* levels 0..20 (binary rounding is not modelled)
RECURSIVE SpellcasterHundredths(_)
SpellcasterHundredths(classes) ==
    IF classes = <<>> THEN 0
    ELSE LET cls == classes[Len(classes)]
             spellcasting ==
                 Get(cls, "spellcasting",
                     Get(CLASS_SPELLCASTING, Get(cls, "name", <<>>), "none"))
             level == Get(cls, "level", 0)
             multiplier == Get(SPELLCASTER_MULTIPLIERS, spellcasting, 0)
         IN  SpellcasterHundredths(SubSeq(classes, 1, Len(classes) - 1))
                 + level * multiplier

\* calculate_spellcaster_level with math.floor in place of int
calculate_spellcaster_level_floor(classes) ==
    LET h == SpellcasterHundredths(classes)
    IN  CHOOSE k \in (0 - 100)..100 : 100 * k <= h /\ h < 100 * (k + 1)

calculate_spellcaster_level(classes) == IntOfHundredths(SpellcasterHundredths(classes))

level_names == <<"1st", "2nd", "3rd", "4th", "5th", "6th", "7th", "8th", "9th">>

Min(a, b) == IF a <= b THEN a ELSE b

Max(a, b) == IF a >= b THEN a ELSE b

\* get_spell_slots with the row looked up by the level itself, not by
\* min(level, 20)
get_spell_slots_unclamped(spellcaster_level) ==
    IF spellcaster_level <= 0 \/ spellcaster_level > 20 THEN EmptyDict
    ELSE LET slots == MULTICLASS_SPELL_SLOTS[spellcaster_level]
             present == {i \in 1..9 : slots[i] > 0}
         IN  [n \in {level_names[i] : i \in present} |->
                 slots[CHOOSE i \in present : level_names[i] = n]]

get_spell_slots(spellcaster_level) ==
    IF spellcaster_level <= 0 THEN EmptyDict
    ELSE LET slots == MULTICLASS_SPELL_SLOTS[Min(spellcaster_level, 20)]
             present == {i \in 1..9 : slots[i] > 0}
         IN  [n \in {level_names[i] : i \in present} |->
                 slots[CHOOSE i \in present : level_names[i] = n]]

\* calculate_hit_dice with each class overwriting the count of its die
RECURSIVE calculate_hit_dice_overwriting(_)
calculate_hit_dice_overwriting(classes) ==
    IF classes = <<>> THEN EmptyDict
    ELSE LET hit_dice == calculate_hit_dice_overwriting(SubSeq(classes, 1, Len(classes) - 1))
             cls == classes[Len(classes)]
             die == Get(cls, "hit_die", Get(CLASS_HIT_DICE, Get(cls, "name", <<>>), "d8"))
         IN  Put(hit_dice, die, Get(cls, "level", 0))

RECURSIVE calculate_hit_dice(_)
calculate_hit_dice(classes) ==
    IF classes = <<>> THEN EmptyDict
    ELSE LET hit_dice == calculate_hit_dice(SubSeq(classes, 1, Len(classes) - 1))
             cls == classes[Len(classes)]
             die == Get(cls, "hit_die", Get(CLASS_HIT_DICE, Get(cls, "name", <<>>), "d8"))
             level == Get(cls, "level", 0)
         IN  Put(hit_dice, die, Get(hit_dice, die, 0) + level)

\* sum(c.get('level', 0) for c in classes)
RECURSIVE SumLevels(_)
SumLevels(classes) ==
    IF classes = <<>> THEN 0
    ELSE SumLevels(SubSeq(classes, 1, Len(classes) - 1))
             + Get(classes[Len(classes)], "level", 0)

\* the level of the first class whose name matches, ignoring case; 0 if none
RECURSIVE get_class_level(_, _)
get_class_level(classes, class_name) ==
    IF classes = <<>> THEN 0
    ELSE IF Lower(Get(Head(classes), "name", <<>>)) = Lower(class_name)
         THEN Get(Head(classes), "level", 0)
         ELSE get_class_level(Tail(classes), class_name)

(***************************************************************************)
(* Summoned-creature lifecycle.                                            *)
(***************************************************************************)
ABILITIES == <<"STR", "DEX", "CON", "INT", "WIS", "CHA">>

On == <<"o", "n">>

\* str(n) of an integer
RECURSIVE NatToText(_)
NatToText(n) ==
    IF n < 10 THEN <<DigitChars[n + 1]>>
    ELSE NatToText(n \div 10) \o <<DigitChars[(n % 10) + 1]>>

IntToText(n) == IF n < 0 THEN <<"-">> \o NatToText(0 - n) ELSE NatToText(n)

\* the uuid4() values a session can draw
Ids == 1..MaxIds

\* next((m for m in monsters if m.get('name', '').lower() == name.lower()), None):
\* the index of the first match, 0 for None
FindCreature(catalog, name) ==
    LET hits == {i \in 1..Len(catalog) :
                    Lower(Get(catalog[i], "name", <<>>)) = Lower(name)}
    IN  IF hits = {} THEN 0 ELSE CHOOSE i \in hits : \A j \in hits : i <= j

\* the catalog entry with the POST form's overrides applied (lines 357-364)
ApplyOverrides(creature, form) ==
    LET hp_str == Get(form, "Hit Points", Get(creature, "Hit Points", <<>>))
        parsed == parse_hit_points(hp_str)
        withHp == Put(Put(Put(creature, "Hit Points", hp_str),
                          "hp_max", parsed.hp_max),
                      "hit_dice_value", parsed.hit_dice)
        withAc == Put(withHp, "Armor Class",
                      Get(form, "Armor Class", Get(creature, "Armor Class", <<>>)))
    IN  [k \in DOMAIN withAc \cup {ABILITIES[i] : i \in 1..6} |->
            IF \E i \in 1..6 : ABILITIES[i] = k
            THEN Get(form, k, Get(creature, k, <<>>))
            ELSE withAc[k]]

\* faulty variant of ExtraHp: one bonus HP per die instead of two
ExtraHpPerDie(mighty_summoner, hit_dice) ==
    IF mighty_summoner /\ hit_dice # <<>>
    THEN LET num_dice == ParseInt(BeforeFirstD(hit_dice))
         IN  IF num_dice.ok THEN num_dice.val ELSE 0
    ELSE 0

\* lines 366-372
ExtraHp(mighty_summoner, hit_dice) ==
    IF mighty_summoner /\ hit_dice # <<>>
    THEN LET num_dice == ParseInt(BeforeFirstD(hit_dice))
         IN  IF num_dice.ok THEN 2 * num_dice.val ELSE 0
    ELSE 0

\* faulty variant of NewInstance: the creature starts at the parsed HP, the
\* bonus left out of its current HP
NewInstanceBaseHp(creature_id, creature, hp_max, hit_dice, mighty_summoner, extra_hp) ==
    LET base_hp == hp_max + extra_hp
    IN  (("id" :> creature_id) @@
         ("name" :> creature["name"]) @@
         ("Hit Points" :> (IntToText(base_hp) \o <<" ", "(">>
                              \o Get(creature, "Hit Points", <<>>) \o <<")">>)) @@
         ("HP Max" :> base_hp) @@
         ("current_hp" :> hp_max) @@
         ("Hit Dice" :> hit_dice) @@
         ("Armor Class" :> Get(creature, "Armor Class", <<>>)) @@
         ("abilities" :> [a \in {ABILITIES[i] : i \in 1..6} |-> Get(creature, a, <<>>)]) @@
         ("mighty_summoner" :> mighty_summoner) @@
         ("extra_hp" :> extra_hp))

\* the dict stored for one new creature (lines 378-402).  The flat STR..CHA
\* keys repeat 'abilities'; skills, traits, actions, spells, equipment and
\* img_url are copies of catalog texts that nothing reads back: left out.
NewInstance(creature_id, creature, hp_max, hit_dice, mighty_summoner, extra_hp) ==
    LET base_hp == hp_max + extra_hp
    IN  (("id" :> creature_id) @@
         ("name" :> creature["name"]) @@
         ("Hit Points" :> (IntToText(base_hp) \o <<" ", "(">>
                              \o Get(creature, "Hit Points", <<>>) \o <<")">>)) @@
         ("HP Max" :> base_hp) @@
         ("current_hp" :> base_hp) @@
         ("Hit Dice" :> hit_dice) @@
         ("Armor Class" :> Get(creature, "Armor Class", <<>>)) @@
         ("abilities" :> [a \in {ABILITIES[i] : i \in 1..6} |-> Get(creature, a, <<>>)]) @@
         ("mighty_summoner" :> mighty_summoner) @@
         ("extra_hp" :> extra_hp))

\* the body of the POST branch of summon for the creature found, storing the
\* new creatures under the fresh ids new_ids
summon(summ, creature, form, new_ids) ==
    LET mighty_summoner == Get(form, "mighty_summoner", <<>>) = On
        over == ApplyOverrides(creature, form)
        hp_max == over["hp_max"]
        hit_dice == over["hit_dice_value"]
        extra_hp == ExtraHp(mighty_summoner, hit_dice)
    IN  [id \in DOMAIN summ \cup new_ids |->
            IF id \in new_ids
            THEN NewInstance(id, over, hp_max, hit_dice, mighty_summoner, extra_hp)
            ELSE summ[id]]

\* faulty variant of summoned_creatures: the new current HP clamped to
\* 0 .. maximum HP
summoned_creatures_clamped(summ, form) ==
    IF "id" \in DOMAIN form /\ form["id"] \in DOMAIN summ /\ "current_hp" \in DOMAIN form
    THEN LET new_hp == ParseInt(form["current_hp"])
         IN  IF new_hp.ok
             THEN [summ EXCEPT ![form["id"]] =
                      Put(@, "current_hp", Max(0, Min(new_hp.val, @["HP Max"])))]
             ELSE summ
    ELSE summ

\* the POST branch of summoned_creatures (lines 413-422)
summoned_creatures(summ, form) ==
    IF "id" \in DOMAIN form /\ form["id"] \in DOMAIN summ /\ "current_hp" \in DOMAIN form
    THEN LET new_hp == ParseInt(form["current_hp"])
         IN  IF new_hp.ok
             THEN [summ EXCEPT ![form["id"]] = Put(@, "current_hp", new_hp.val)]
             ELSE summ
    ELSE summ

\* faulty variant of remove_summoned: the whole collection dropped
remove_summoned_all(summ, creature_id) ==
    IF creature_id \in DOMAIN summ THEN EmptyDict ELSE summ

remove_summoned(summ, creature_id) ==
    IF creature_id \in DOMAIN summ THEN Del(summ, creature_id) ELSE summ

\* faulty variant of update_summoned: a non-numeric current HP stored as 0,
\* the way a non-numeric temp HP is
update_summoned_zeroing(summ, creature_id, form) ==
    IF creature_id \in DOMAIN summ
    THEN LET current_hp == ParseInt(Get(form, "current_hp", <<>>))
             temp_hp == ParseInt(Get(form, "temp_hp", <<>>))
             s1 == IF "current_hp" \in DOMAIN form
                   THEN Put(summ[creature_id], "current_hp",
                            IF current_hp.ok THEN current_hp.val ELSE 0)
                   ELSE summ[creature_id]
             s2 == IF "temp_hp" \in DOMAIN form
                   THEN Put(s1, "temp_hp", IF temp_hp.ok THEN temp_hp.val ELSE 0)
                   ELSE s1
         IN  [summ EXCEPT ![creature_id] = s2]
    ELSE summ

update_summoned(summ, creature_id, form) ==
    IF creature_id \in DOMAIN summ
    THEN LET current_hp == ParseInt(Get(form, "current_hp", <<>>))
             temp_hp == ParseInt(Get(form, "temp_hp", <<>>))
             s1 == IF "current_hp" \in DOMAIN form /\ current_hp.ok
                   THEN Put(summ[creature_id], "current_hp", current_hp.val)
                   ELSE summ[creature_id]
             s2 == IF "temp_hp" \in DOMAIN form
                   THEN Put(s1, "temp_hp", IF temp_hp.ok THEN temp_hp.val ELSE 0)
                   ELSE s1
         IN  [summ EXCEPT ![creature_id] = s2]
    ELSE summ

\* summoned[creature_id].get('temp_hp', 0): summon stores no 'temp_hp' key, and
\* an instance without one reads as 0
TempHp(instance) == Get(instance, "temp_hp", 0)

\* faulty variant of ApplyBearSpirit: the aura's temp HP added to what the
\* creature has
ApplyBearSpiritStacking(summ, classes) ==
    LET druid_level == get_class_level(classes, Druid)
        temp_hp == 5 + druid_level
    IN  [creature_id \in DOMAIN summ |->
            Put(summ[creature_id], "temp_hp", TempHp(summ[creature_id]) + temp_hp)]

\* the loop of toggle_bear_spirit over the summoned creatures (lines 467-477)
ApplyBearSpirit(summ, classes) ==
    LET druid_level == get_class_level(classes, Druid)
        temp_hp == 5 + druid_level
    IN  [creature_id \in DOMAIN summ |->
            LET current_temp_hp == Get(summ[creature_id], "temp_hp", 0)
            IN  IF temp_hp > current_temp_hp
                THEN Put(summ[creature_id], "temp_hp", temp_hp)
                ELSE summ[creature_id]]

\* faulty variant of toggle_bear_spirit: switching the aura off takes the
\* temp HP away
toggle_bear_spirit_clearing(summ, player, bear_spirit_active) ==
    IF bear_spirit_active THEN ApplyBearSpirit(summ, Get(player, "classes", <<>>))
    ELSE [creature_id \in DOMAIN summ |-> Put(summ[creature_id], "temp_hp", 0)]

toggle_bear_spirit(summ, player, bear_spirit_active) ==
    IF bear_spirit_active THEN ApplyBearSpirit(summ, Get(player, "classes", <<>>)) ELSE summ

\* faulty variant of update_temp_hp: the temp HP written to every creature of
\* the addressed creature's name, as if the creatures of one summon shared it
update_temp_hp_shared(summ, creature_id, form) ==
    IF creature_id \in DOMAIN summ /\ "temp_hp" \in DOMAIN form
    THEN LET temp_hp == ParseInt(form["temp_hp"])
         IN  [id \in DOMAIN summ |->
                 IF summ[id]["name"] = summ[creature_id]["name"]
                 THEN Put(summ[id], "temp_hp", IF temp_hp.ok THEN Max(0, temp_hp.val) ELSE 0)
                 ELSE summ[id]]
    ELSE summ

update_temp_hp(summ, creature_id, form) ==
    IF creature_id \in DOMAIN summ /\ "temp_hp" \in DOMAIN form
    THEN LET temp_hp == ParseInt(form["temp_hp"])
         IN  [summ EXCEPT ![creature_id] =
                 Put(@, "temp_hp", IF temp_hp.ok THEN Max(0, temp_hp.val) ELSE 0)]
    ELSE summ

(***************************************************************************)
(* Character sheet: POST /player and POST /import-character.               *)
(* A player form is [fields, class_name, class_level, subclass]: fields    *)
(* holds the plainly named form fields, and class_name[i], class_level[i], *)
(* subclass[i] are the fields class_name_{i}, class_level_{i},             *)
(* subclass_{i}.                                                           *)
(***************************************************************************)
ability_fields ==
    {"strength", "dexterity", "constitution", "intelligence", "wisdom", "charisma"}

class_feature_fields == {"mighty_summoner", "guardian_spirit", "faithful_summons"}

\* int(request.form.get(key, default)), default being an int already
FormInt(fields, key, default) ==
    IF key \in DOMAIN fields THEN ParseInt(fields[key]) ELSE [ok |-> TRUE, val |-> default]

\* the class rows 0 .. n-1 of the form, those with an empty name skipped
RECURSIVE PlayerClasses(_, _)
PlayerClasses(form, n) ==
    IF n <= 0 THEN <<>>
    ELSE LET i == n - 1
             class_name == Get(form.class_name, i, <<>>)
             parsed == FormInt(form.class_level, i, 1)
             class_level == IF parsed.ok THEN parsed.val ELSE 1
             entry == [name |-> class_name,
                       subclass |-> Get(form.subclass, i, <<>>),
                       level |-> class_level,
                       hit_die |-> Get(CLASS_HIT_DICE, class_name, "d8"),
                       spellcasting |-> Get(CLASS_SPELLCASTING, class_name, "none"),
                       primary_ability |->
                           Get(MULTICLASS_PREREQUISITES, class_name, EmptyDict)]
         IN  IF class_name # <<>>
             THEN Append(PlayerClasses(form, n - 1), entry)
             ELSE PlayerClasses(form, n - 1)

\* the derived values both handlers recompute from a class list
WithDerived(data, classes) ==
    LET total_level == SumLevels(classes)
        spellcaster_level == calculate_spellcaster_level(classes)
    IN  [data EXCEPT
            !.classes = classes,
            !.total_level = total_level,
            !.proficiency_bonus = calculate_proficiency_bonus(total_level),
            !.hit_dice = calculate_hit_dice(classes),
            !.spellcasting = [spellcaster_level |-> spellcaster_level,
                              spell_slots |-> get_spell_slots(spellcaster_level)]]

\* the POST branch of player, class_count being the parsed count
player(data, form, class_count) ==
    LET scores == [a \in ability_fields |->
                      LET v == FormInt(form.fields, a, 10)
                      IN  IF v.ok THEN v.val ELSE 10]
        classes == PlayerClasses(form, class_count)
        features == [f \in DOMAIN data.class_features |->
                        IF f \in class_feature_fields
                        THEN Get(form.fields, f, <<>>) = On
                        ELSE data.class_features[f]]
    IN  [WithDerived(data, classes) EXCEPT
            !.ability_scores = scores,
            !.class_features = features]

\* the merge of import_character (lines 628-672)
import_character(existing_data, imported_data) ==
    LET m1 == IF "classes" \in DOMAIN imported_data
              THEN WithDerived(existing_data, imported_data["classes"])
              ELSE existing_data
        m2 == IF "ability_scores" \in DOMAIN imported_data
              THEN [m1 EXCEPT !.ability_scores = imported_data["ability_scores"]]
              ELSE m1
        m3 == IF "proficiency_bonus" \in DOMAIN imported_data
              THEN [m2 EXCEPT !.proficiency_bonus = imported_data["proficiency_bonus"]]
              ELSE m2
        bear_spirit == Get(m3.class_features, "bear_spirit_active", FALSE)
        merged == [f \in DOMAIN m3.class_features
                          \cup DOMAIN imported_data["class_features"] |->
                      Get(imported_data["class_features"], f, m3.class_features[f])]
    IN  IF "class_features" \in DOMAIN imported_data
        THEN [m3 EXCEPT !.class_features =
                 IF "bear_spirit_active" \in DOMAIN imported_data["class_features"]
                 THEN merged
                 ELSE Put(merged, "bear_spirit_active", bear_spirit)]
        ELSE m3

(***************************************************************************)
(* Requests.                                                               *)
(***************************************************************************)
Wolf == <<"W", "o", "l", "f">>

\* "11 (2d8+2)"
WolfHitPoints == <<"1", "1", " ", "(", "2", "d", "8", "+", "2", ")">>

\* a catalog record with the keys summon reads
Monster(name, hit_points) ==
    ("name" :> name) @@ ("Hit Points" :> hit_points) @@
    ("Armor Class" :> <<"1", "3">>) @@
    ("STR" :> <<"1", "2">>) @@ ("DEX" :> <<"1", "5">>) @@ ("CON" :> <<"1", "2">>) @@
    ("INT" :> <<"3">>) @@ ("WIS" :> <<"1", "2">>) @@ ("CHA" :> <<"6">>)

\* the catalog of the lifecycle runs
SrdSample == <<Monster(Wolf, WolfHitPoints)>>

\* all texts of at most n characters over an alphabet
Texts(alphabet, n) == UNION {[1..k -> alphabet] : k \in 0..n}

\* the forms over some of the keys, each key present with one of its values
RECURSIVE FormsOver(_, _)
FormsOver(choices, keys) ==
    IF keys = {} THEN {EmptyDict}
    ELSE LET k == CHOOSE x \in keys : TRUE
             rest == FormsOver(choices, keys \ {k})
         IN  rest \cup {Put(f, k, v) : f \in rest, v \in choices[k]}

Forms(choices) == FormsOver(choices, DOMAIN choices)

NoRequest == [route |-> "", arg |-> 0, form |-> EmptyDict]

Handled(route, arg, form, status) ==
    /\ last' = [route |-> route, arg |-> arg, form |-> form]
    /\ response' = status

\* POST /summon/<name>
SummonRequest(name, form) ==
    LET found == FindCreature(monsters, name)
        quantity == FormInt(form, "quantity", 1)
    IN  /\ IF found = 0
           THEN UNCHANGED summoned /\ Handled("summon", name, form, 404)
           ELSE IF ~quantity.ok
           THEN UNCHANGED summoned /\ Handled("summon", name, form, 500)
           ELSE /\ \E new_ids \in SUBSET (Ids \ DOMAIN summoned) :
                       /\ Cardinality(new_ids) = Max(quantity.val, 0)
                       /\ summoned' = summon(summoned, monsters[found], form, new_ids)
                /\ Handled("summon", name, form, 302)
        /\ UNCHANGED <<monsters, character>>

\* POST /summoned
SummonedCreaturesRequest(form) ==
    /\ summoned' = summoned_creatures(summoned, form)
    /\ Handled("summoned_creatures", Get(form, "id", 0), form, 200)
    /\ UNCHANGED <<monsters, character>>

\* POST /remove_summoned/<creature_id>
RemoveSummonedRequest(creature_id) ==
    /\ summoned' = remove_summoned(summoned, creature_id)
    /\ Handled("remove_summoned", creature_id, EmptyDict, 302)
    /\ UNCHANGED <<monsters, character>>

\* POST /update_summoned/<creature_id>
UpdateSummonedRequest(creature_id, form) ==
    /\ summoned' = update_summoned(summoned, creature_id, form)
    /\ Handled("update_summoned", creature_id, form, 302)
    /\ UNCHANGED <<monsters, character>>

\* POST /toggle_bear_spirit
ToggleBearSpiritRequest(form) ==
    LET bear_spirit_active == Get(form, "bear_spirit_active", <<>>) = On
    IN  /\ character' =
               [character EXCEPT !.class_features.bear_spirit_active = bear_spirit_active]
        /\ summoned' = toggle_bear_spirit(summoned, character', bear_spirit_active)
        /\ Handled("toggle_bear_spirit", 0, form, 302)
        /\ UNCHANGED monsters

\* POST /update_temp_hp/<creature_id>
UpdateTempHpRequest(creature_id, form) ==
    /\ summoned' = update_temp_hp(summoned, creature_id, form)
    /\ Handled("update_temp_hp", creature_id, form, 302)
    /\ UNCHANGED <<monsters, character>>

\* POST /player: a class_count that is no integer is an uncaught ValueError
PlayerRequest(form) ==
    LET class_count == FormInt(form.fields, "class_count", 1)
    IN  /\ IF class_count.ok
           THEN /\ character' = player(character, form, class_count.val)
                /\ Handled("player", 0, form, 302)
           ELSE /\ UNCHANGED character
                /\ Handled("player", 0, form, 500)
        /\ UNCHANGED <<monsters, summoned>>

\* POST /import-character with the decoded JSON imported_data; an empty
\* object is refused (line 620)
ImportCharacterRequest(imported_data) ==
    /\ IF DOMAIN imported_data = {}
       THEN /\ UNCHANGED character
            /\ Handled("import_character", 0, imported_data, 400)
       ELSE /\ character' = import_character(character, imported_data)
            /\ Handled("import_character", 0, imported_data, 200)
    /\ UNCHANGED <<monsters, summoned>>

(***************************************************************************)
(* The inputs the requests are drawn from.                                 *)
(***************************************************************************)
SummonNames == {Lower(Wolf), <<"x">>}

\* every lifecycle summon claims Mighty Summoner; SummonWide varies the flag
SummonForms ==
    {Put(f, "mighty_summoner", On) : f \in Forms("quantity" :> {<<"2">>})}

SummonedForms == Forms(("id" :> Ids) @@ ("current_hp" :> {<<"2", "0">>, <<"x">>}))

UpdateForms ==
    Forms(("current_hp" :> {<<"-", "2">>, <<"x">>}) @@ ("temp_hp" :> {<<"4">>, <<"x">>}))

TempHpForms == Forms("temp_hp" :> {<<"4">>, <<"-", "3">>, <<"x">>})

ToggleForms == Forms("bear_spirit_active" :> {On})

BearUpdateForms == {"temp_hp" :> <<"-", "3">>}

BearTempHpForms == {"temp_hp" :> <<"3">>, "temp_hp" :> <<"9">>}

\* the row of a one-class character form
OneClassForm(class_name, class_level) ==
    [fields |-> EmptyDict, class_name |-> (0 :> class_name),
     class_level |-> (0 :> class_level), subclass |-> EmptyDict]

\* the characters the Bear Spirit runs start from: no class, a Druid of level
\* 2, and a "druid" row of level -6
StartCharacters ==
    {DEFAULT_PLAYER_DATA,
     player(DEFAULT_PLAYER_DATA, OneClassForm(Druid, <<"2">>), 1),
     player(DEFAULT_PLAYER_DATA, OneClassForm(Lower(Druid), <<"-", "6">>), 1)}

Summon == \E name \in SummonNames, form \in SummonForms : SummonRequest(name, form)

SummonedCreatures == \E form \in SummonedForms : SummonedCreaturesRequest(form)

RemoveSummoned == \E creature_id \in Ids : RemoveSummonedRequest(creature_id)

UpdateSummoned ==
    \E creature_id \in Ids, form \in UpdateForms : UpdateSummonedRequest(creature_id, form)

UpdateTempHp ==
    \E creature_id \in Ids, form \in TempHpForms : UpdateTempHpRequest(creature_id, form)

ToggleBearSpirit == \E form \in ToggleForms : ToggleBearSpiritRequest(form)

BearUpdateSummoned ==
    \E creature_id \in Ids, form \in BearUpdateForms :
        UpdateSummonedRequest(creature_id, form)

BearUpdateTempHp ==
    \E creature_id \in Ids, form \in BearTempHpForms :
        UpdateTempHpRequest(creature_id, form)

(***************************************************************************)
(* Spec: the hit-point handlers of one session, from an empty collection.  *)
(***************************************************************************)
Init ==
    /\ monsters = SrdSample
    /\ character = DEFAULT_PLAYER_DATA
    /\ summoned = EmptyDict
    /\ last = NoRequest
    /\ response = 0

Next ==
    \/ Summon
    \/ SummonedCreatures
    \/ RemoveSummoned
    \/ UpdateSummoned
    \/ UpdateTempHp

Spec == Init /\ [][Next]_vars

(***************************************************************************)
(* SpecBear: the Bear Spirit toggle among the handlers that set temp HP.   *)
(***************************************************************************)
InitBear ==
    /\ monsters = SrdSample
    /\ character \in StartCharacters
    /\ summoned = EmptyDict
    /\ last = NoRequest
    /\ response = 0

NextBear ==
    \/ Summon
    \/ RemoveSummoned
    \/ BearUpdateSummoned
    \/ BearUpdateTempHp
    \/ ToggleBearSpirit

SpecBear == InitBear /\ [][NextBear]_vars

(***************************************************************************)
(* SpecSummon: summon and remove over catalogs whose hit-points text is    *)
(* any text of at most MaxLen characters.                                  *)
(***************************************************************************)
HpAlphabet == {"2", "d", " "}

Overrides ==
    ("Hit Points" :> WolfHitPoints) @@ ("Armor Class" :> <<"1", "5">>) @@
    ("STR" :> <<"1", "8">>)

WideSummonForms ==
    {EmptyDict,
     ("quantity" :> <<"2">>) @@ ("mighty_summoner" :> On),
     "quantity" :> <<"x">>,
     Put(Overrides, "mighty_summoner", On)}

SummonWide == \E form \in WideSummonForms : SummonRequest(Lower(Wolf), form)

InitSummon ==
    /\ monsters \in {<<Monster(Wolf, text)>> : text \in Texts(HpAlphabet, MaxLen)}
    /\ character = DEFAULT_PLAYER_DATA
    /\ summoned = EmptyDict
    /\ last = NoRequest
    /\ response = 0

NextSummon ==
    \/ SummonWide
    \/ RemoveSummoned

SpecSummon == InitSummon /\ [][NextSummon]_vars

(***************************************************************************)
(* SpecChar: character updates and imports, from the default character.    *)
(***************************************************************************)
\* what one class row of the character form may hold
ClassRows ==
    {[name |-> <<>>, level |-> <<"3">>],
     [name |-> Druid, level |-> <<"5">>],
     [name |-> Druid, level |-> <<"0">>],
     [name |-> Paladin, level |-> <<"x">>]}

ClassCounts == {IntToText(MaxClasses), <<"x">>}

PlayerForms ==
    {[fields |-> fields,
      class_name |-> [i \in 0..(MaxClasses - 1) |-> rows[i].name],
      class_level |-> [i \in 0..(MaxClasses - 1) |-> rows[i].level],
      subclass |-> EmptyDict] :
        fields \in Forms("class_count" :> ClassCounts),
        rows \in [0..(MaxClasses - 1) -> ClassRows]}

\* class lists as an import carries them: the bookmarklet's rows, and rows
\* written by hand with keys missing
ImportClassLists ==
    {<<[name |-> Druid, level |-> 5, subclass |-> <<>>, hit_die |-> "d8",
        spellcasting |-> "full"]>>,
     <<[name |-> <<"X">>, level |-> 2]>>,
     <<[name |-> Rogue, level |-> 3, spellcasting |-> "third"], [level |-> 1]>>}

ImportedData ==
    Forms(("classes" :> ImportClassLists) @@ ("proficiency_bonus" :> {6}))

Player == \E form \in PlayerForms : PlayerRequest(form)

ImportCharacter == \E imported_data \in ImportedData : ImportCharacterRequest(imported_data)

InitChar ==
    /\ monsters = SrdSample
    /\ character = DEFAULT_PLAYER_DATA
    /\ summoned = EmptyDict
    /\ last = NoRequest
    /\ response = 0

NextChar ==
    \/ Player
    \/ ImportCharacter

SpecChar == InitChar /\ [][NextChar]_vars

(***************************************************************************)
(* Properties.                                                             *)
(***************************************************************************)
HpRoutes == {"summoned_creatures", "update_summoned", "update_temp_hp"}

\* the request handled last addressed an instance of the collection summ
Addressed(req, summ) == req.route \in HpRoutes /\ req.arg \in DOMAIN summ

Malformed(req, field) == field \in DOMAIN req.form /\ ~ParseInt(req.form[field]).ok

\* C1: in every reachable state of the collection, every instance's
\* temporary HP is >= 0.
C1_TempHpNonNegative == \A id \in DOMAIN summoned : TempHp(summoned[id]) >= 0

\* C2: the stored character's derived fields are the values computed from
\* its stored classes: total level, proficiency bonus, hit dice, spellcaster
\* level and spell slots.
C2_DerivedFromClasses ==
    /\ character.total_level = SumLevels(character.classes)
    /\ character.proficiency_bonus = calculate_proficiency_bonus(character.total_level)
    /\ character.hit_dice = calculate_hit_dice(character.classes)
    /\ character.spellcasting.spellcaster_level
           = calculate_spellcaster_level(character.classes)
    /\ character.spellcasting.spell_slots
           = get_spell_slots(character.spellcasting.spellcaster_level)

\* C3 as stated: a non-numeric current-HP or temporary-HP update of an
\* existing instance retains the prior value, in every route.
C3_MalformedRejected ==
    [][Addressed(last', summoned) =>
          /\ (last'.route # "update_temp_hp" /\ Malformed(last', "current_hp")) =>
                 summoned'[last'.arg]["current_hp"] = summoned[last'.arg]["current_hp"]
          /\ (last'.route # "summoned_creatures" /\ Malformed(last', "temp_hp")) =>
                 TempHp(summoned'[last'.arg]) = TempHp(summoned[last'.arg])]_vars

\* C3 as amended: a non-numeric current-HP update of an existing instance
\* retains the prior current HP in every route; a non-numeric temporary-HP
\* update sets the temporary HP to 0 in every route, and leaves the current HP
\* alone unless the same request carries a numeric current HP.
C3_MalformedCurrentKeptTempZeroed ==
    [][Addressed(last', summoned) =>
          /\ (last'.route # "update_temp_hp" /\ Malformed(last', "current_hp")) =>
                 summoned'[last'.arg]["current_hp"] = summoned[last'.arg]["current_hp"]
          /\ (last'.route # "summoned_creatures" /\ Malformed(last', "temp_hp")) =>
                 /\ "temp_hp" \in DOMAIN summoned'[last'.arg]
                 /\ summoned'[last'.arg]["temp_hp"] = 0
                 /\ "current_hp" \notin DOMAIN last'.form =>
                        summoned'[last'.arg]["current_hp"]
                            = summoned[last'.arg]["current_hp"]]_vars

\* an update_summoned with both values non-numeric has acted on an instance
\* whose current HP had been changed before: the current HP is still the
\* changed one, the temporary HP is 0
C3_Witness ==
    /\ last.route = "update_summoned"
    /\ last.arg \in DOMAIN summoned
    /\ Malformed(last, "current_hp") /\ Malformed(last, "temp_hp")
    /\ summoned[last.arg]["current_hp"] # summoned[last.arg]["HP Max"]
    /\ summoned[last.arg]["temp_hp"] = 0

\* C4: toggling Bear Spirit on leaves every instance with temporary HP
\* max(previous temporary HP, 5 + Druid level), an instance without temporary
\* HP counting as 0; no instance is added or removed.
C4_BearSpiritRaisesToMax ==
    [][(last'.route = "toggle_bear_spirit"
            /\ Get(last'.form, "bear_spirit_active", <<>>) = On) =>
          /\ DOMAIN summoned' = DOMAIN summoned
          /\ \A id \in DOMAIN summoned :
                 TempHp(summoned'[id])
                     = Max(TempHp(summoned[id]),
                           5 + get_class_level(character.classes, Druid))]_vars

\* Bear Spirit has been toggled on for a Druid of level 2 with two creatures:
\* one kept its higher 9, the other was raised to 7
C4_Witness ==
    /\ last.route = "toggle_bear_spirit"
    /\ Get(last.form, "bear_spirit_active", <<>>) = On
    /\ get_class_level(character.classes, Druid) = 2
    /\ \E a, b \in DOMAIN summoned :
           TempHp(summoned[a]) = 9 /\ TempHp(summoned[b]) = 7

\* C5: toggling Bear Spirit off leaves the collection as it was; of the
\* character only the bear_spirit_active flag changes, to off.
C5_ToggleOffKeepsCollection ==
    [][(last'.route = "toggle_bear_spirit"
            /\ Get(last'.form, "bear_spirit_active", <<>>) # On) =>
          /\ summoned' = summoned
          /\ character' =
                 [character EXCEPT !.class_features.bear_spirit_active = FALSE]]_vars

\* Bear Spirit has been toggled off while a creature holds the 7 temporary HP
\* an earlier toggle granted
C5_Witness ==
    /\ last.route = "toggle_bear_spirit"
    /\ Get(last.form, "bear_spirit_active", <<>>) # On
    /\ ~character.class_features.bear_spirit_active
    /\ get_class_level(character.classes, Druid) = 2
    /\ \E id \in DOMAIN summoned : TempHp(summoned[id]) = 7

\* the places <<i, j, k>> of a text with a "d" at j, i before it and k after
DiceTokens(s) ==
    UNION {{<<i, j, k>> : i \in 1..(j - 1), k \in (j + 1)..Len(s)} :
               j \in {p \in 1..Len(s) : s[p] = "d"}}

\* the first NdM token of a text: of the places where digits i..j-1, a "d"
\* and digits j+1..k stand, the one that starts leftmost and runs longest;
\* token <<>> and n = 0 when the text holds none
FirstDiceToken(s) ==
    LET tokens == {t \in DiceTokens(s) :
                      /\ AllDigits(SubSeq(s, t[1], t[2] - 1))
                      /\ AllDigits(SubSeq(s, t[2] + 1, t[3]))}
    IN  IF tokens = {} THEN [token |-> <<>>, n |-> 0]
        ELSE LET t == CHOOSE t \in tokens : \A u \in tokens :
                          t[1] < u[1] \/ (t[1] = u[1] /\ t[3] >= u[3])
             IN  [token |-> SubSeq(s, t[1], t[3]),
                  n |-> DigitsValue(SubSeq(s, t[1], t[2] - 1))]

\* the integer a text starts with, 0 when it starts with no digit
LeadingInteger(s) ==
    LET n == CHOOSE n \in 0..Len(s) :
                 /\ AllDigits(SubSeq(s, 1, n))
                 /\ n < Len(s) => ~IsDigit(s[n + 1])
    IN  DigitsValue(SubSeq(s, 1, n))

\* a summon request has stored its creatures
Summoned(req, status) == req.route = "summon" /\ status = 302

\* the hit-points text a summon works from: the form's when it has one,
\* otherwise the catalog entry's
EffectiveHitPoints(req, catalog) ==
    Get(req.form, "Hit Points",
        Get(catalog[FindCreature(catalog, req.arg)], "Hit Points", <<>>))

\* C6: every creature a summon stores has the first NdM token of the
\* effective hit-points text as hit dice, bonus HP 2 x N when Mighty Summoner
\* is on and a token was found and 0 otherwise, and maximum HP the leading
\* integer of the text plus the bonus.
C6_ParsedHitPointsAndBonus ==
    [][Summoned(last', response') =>
          LET text == EffectiveHitPoints(last', monsters)
              dice == FirstDiceToken(text)
              mighty == Get(last'.form, "mighty_summoner", <<>>) = On
              bonus == IF mighty /\ dice.token # <<>> THEN 2 * dice.n ELSE 0
          IN  \A id \in DOMAIN summoned' \ DOMAIN summoned :
                  /\ summoned'[id]["Hit Dice"] = dice.token
                  /\ summoned'[id]["extra_hp"] = bonus
                  /\ summoned'[id]["HP Max"] = LeadingInteger(text) + bonus]_vars

\* a summon with Mighty Summoner and the hit-points override "11 (2d8+2)",
\* over a catalog text that differs, has stored a creature with bonus 4 and
\* maximum 15
C6_Witness ==
    /\ Summoned(last, response)
    /\ Get(last.form, "Hit Points", <<>>) = WolfHitPoints
    /\ monsters[1]["Hit Points"] # WolfHitPoints
    /\ \E id \in DOMAIN summoned :
           /\ summoned[id]["Hit Dice"] = <<"2", "d", "8">>
           /\ summoned[id]["extra_hp"] = 4
           /\ summoned[id]["HP Max"] = 15

\* C7: a summon of quantity q >= 1 adds exactly q instances under ids that
\* were not keys before; each is stored under its own id with current HP equal
\* to its maximum HP, no temporary HP, and the bonus HP and Mighty Summoner
\* flag of the request; the instances already there are unchanged.
C7_SummonAddsQuantity ==
    [][Summoned(last', response') =>
          LET q == FormInt(last'.form, "quantity", 1).val
              new_ids == DOMAIN summoned' \ DOMAIN summoned
              mighty == Get(last'.form, "mighty_summoner", <<>>) = On
          IN  /\ q >= 1 => Cardinality(new_ids) = q
              /\ \A id \in new_ids :
                     /\ summoned'[id]["id"] = id
                     /\ summoned'[id]["current_hp"] = summoned'[id]["HP Max"]
                     /\ summoned'[id]["HP Max"]
                            = LeadingInteger(EffectiveHitPoints(last', monsters))
                                  + summoned'[id]["extra_hp"]
                     /\ TempHp(summoned'[id]) = 0
                     /\ summoned'[id]["mighty_summoner"] = mighty
                     /\ ~mighty => summoned'[id]["extra_hp"] = 0
              /\ \A id \in DOMAIN summoned :
                     id \in DOMAIN summoned' /\ summoned'[id] = summoned[id]]_vars

\* a summon of quantity 2 with Mighty Summoner has stored two creatures under
\* two ids, each at full HP with its bonus
C7_Witness ==
    /\ Summoned(last, response)
    /\ Get(last.form, "quantity", <<>>) = <<"2">>
    /\ Get(last.form, "mighty_summoner", <<>>) = On
    /\ \E a, b \in DOMAIN summoned :
           /\ a # b
           /\ summoned[a]["id"] = a /\ summoned[b]["id"] = b
           /\ summoned[a]["extra_hp"] > 0
           /\ summoned[a]["current_hp"] = summoned[a]["HP Max"]
           /\ summoned[b] = [summoned[a] EXCEPT !["id"] = b]

\* C8: remove_summoned deletes the instance of the given id and no other,
\* and answers with the same redirect whether or not the id was there; with an
\* id that is not in the collection the collection stays as it is.
C8_RemoveExactlyOne ==
    [][last'.route = "remove_summoned" =>
          /\ DOMAIN summoned' = DOMAIN summoned \ {last'.arg}
          /\ \A id \in DOMAIN summoned' : summoned'[id] = summoned[id]
          /\ last'.arg \notin DOMAIN summoned => summoned' = summoned
          /\ response' = 302]_vars

\* a removal has been answered with the redirect and left another creature,
\* whose HP had been edited, in the collection
C8_Witness ==
    /\ last.route = "remove_summoned"
    /\ response = 302
    /\ last.arg \notin DOMAIN summoned
    /\ \E id \in DOMAIN summoned :
           summoned[id]["current_hp"] # summoned[id]["HP Max"]

\* C9: every class entry the character holds after POST /player has a level
\* >= 1.
C9_ClassLevelsAtLeastOne ==
    (last.route = "player" /\ response = 302) =>
        \A i \in 1..Len(character.classes) : character.classes[i].level >= 1

\* the integers a current-HP field is tried with
HpRange == (0 - 30)..30

\* the decimal text of each integer of the range
HpText == [v \in HpRange |-> IntToText(v)]

\* C10: a current-HP update that carries the decimal text of an integer v
\* for an existing instance stores exactly v, below 0 and above the maximum HP
\* included, in both routes that set current HP.
C10_CurrentHpStoredAsGiven ==
    [][(/\ Addressed(last', summoned)
        /\ last'.route # "update_temp_hp"
        /\ "current_hp" \in DOMAIN last'.form) =>
          LET text == last'.form["current_hp"]
          IN  \A v \in HpRange :
                  text = HpText[v] => summoned'[last'.arg]["current_hp"] = v]_vars

\* a current-HP update has acted while one creature stands below 0 and
\* another above its maximum HP
C10_Witness ==
    /\ last.route \in {"summoned_creatures", "update_summoned"}
    /\ "current_hp" \in DOMAIN last.form
    /\ last.arg \in DOMAIN summoned
    /\ \E a, b \in DOMAIN summoned :
           /\ summoned[a]["current_hp"] < 0
           /\ summoned[b]["current_hp"] > summoned[b]["HP Max"]

(***************************************************************************)
(* SpecDerive: calls of the derivation functions.  A call leaves the       *)
(* stores alone; last.route names the function called, last.arg is its     *)
(* argument and response is what it returned.                              *)
(***************************************************************************)
Called(function, arg, value) ==
    /\ last' = [route |-> function, arg |-> arg, form |-> EmptyDict]
    /\ response' = value
    /\ UNCHANGED <<monsters, character, summoned>>

\* class entries as the stored character can hold them: a bookmarklet row,
\* rows written by hand with keys missing, a level below 1, and caster types
\* the table of the class does not give
ClassEntries ==
    {[name |-> Druid, subclass |-> <<>>, level |-> 5, hit_die |-> "d8",
      spellcasting |-> "full"],
     [name |-> Paladin, level |-> 3],
     [name |-> Paladin, level |-> 0 - 1],
     [name |-> Rogue, level |-> 4, spellcasting |-> "third"],
     [name |-> Warlock, level |-> 2],
     [name |-> <<"X">>, level |-> 2],
     [level |-> 1],
     [name |-> Cleric, level |-> 3, spellcasting |-> "x"]}

\* the levels of a one-class character: below 1, 1..20, and above 20
LevelRange == (0 - 2)..22

ClassLists ==
    UNION {[1..k -> ClassEntries] : k \in 0..MaxClasses}
        \cup {<<[name |-> Wizard, level |-> n]>> : n \in LevelRange}

CalculateSpellcasterLevel ==
    \E classes \in ClassLists :
        Called("calculate_spellcaster_level", classes, calculate_spellcaster_level(classes))

CalculateHitDice ==
    \E classes \in ClassLists :
        Called("calculate_hit_dice", classes, calculate_hit_dice(classes))

GetSpellSlots ==
    \E spellcaster_level \in LevelRange :
        Called("get_spell_slots", spellcaster_level, get_spell_slots(spellcaster_level))

CalculateProficiencyBonus ==
    \E total_level \in LevelRange :
        Called("calculate_proficiency_bonus", total_level,
               calculate_proficiency_bonus(total_level))

InitDerive ==
    /\ monsters = SrdSample
    /\ character = DEFAULT_PLAYER_DATA
    /\ summoned = EmptyDict
    /\ last = NoRequest
    /\ response = 0

NextDerive ==
    \/ CalculateSpellcasterLevel
    \/ CalculateHitDice
    \/ GetSpellSlots
    \/ CalculateProficiencyBonus

SpecDerive == InitDerive /\ [][NextDerive]_vars

\* the caster type of a class entry: the one it stores, else the one its
\* class name has, else none
CasterType(cls) ==
    IF "spellcasting" \in DOMAIN cls THEN cls["spellcasting"]
    ELSE IF "name" \in DOMAIN cls /\ cls["name"] \in DOMAIN CLASS_SPELLCASTING
         THEN CLASS_SPELLCASTING[cls["name"]]
         ELSE "none"

\* 100 x the multiplier of a caster type: 1, 0.5 and 0.34, and 0 for the rest
HundredthsOf(caster_type) ==
    CASE caster_type = "full" -> 100
      [] caster_type = "half" -> 50
      [] caster_type = "third" -> 34
      [] OTHER -> 0

EntryLevel(cls) == IF "level" \in DOMAIN cls THEN cls["level"] ELSE 0

\* 100 x the sum over the classes of level x multiplier
RECURSIVE WeightedLevels(_)
WeightedLevels(classes) ==
    IF classes = <<>> THEN 0
    ELSE EntryLevel(Head(classes)) * HundredthsOf(CasterType(Head(classes)))
             + WeightedLevels(Tail(classes))

\* floor(h / 100): the greatest integer k with 100 k <= h
FloorOfHundredths(h) == CHOOSE k \in (0 - 100)..100 : 100 * k <= h /\ h < 100 * (k + 1)

\* h / 100 with its fraction dropped: the floor of a sum that is not negative,
\* minus the floor of the negated sum otherwise
TruncatedHundredths(h) ==
    IF h >= 0 THEN FloorOfHundredths(h) ELSE 0 - FloorOfHundredths(0 - h)

CalledSpellcasterLevel == last.route = "calculate_spellcaster_level"

Ordinal(i) ==
    CASE i = 1 -> "1st" [] i = 2 -> "2nd" [] i = 3 -> "3rd" [] i = 4 -> "4th"
      [] i = 5 -> "5th" [] i = 6 -> "6th" [] i = 7 -> "7th" [] i = 8 -> "8th"
      [] i = 9 -> "9th"

\* a mapping holds exactly the non-zero entries of a row of the slot table
IsNonZeroRow(mapping, row) ==
    /\ DOMAIN mapping = {Ordinal(i) : i \in {j \in 1..9 : row[j] # 0}}
    /\ \A i \in 1..9 : row[i] # 0 => mapping[Ordinal(i)] = row[i]

CalledSpellSlots == last.route = "get_spell_slots"

\* C12: get_spell_slots(c) returns an empty mapping for c <= 0, exactly the
\* non-zero entries of row c of the slot table for 1 <= c <= 20, the mapping
\* of c = 20 for c > 20, and {1st: 4, 2nd: 3, 3rd: 2} for c = 5.
C12_SpellSlotsByCasterLevel ==
    CalledSpellSlots =>
        /\ last.arg <= 0 => DOMAIN response = {}
        /\ (1 <= last.arg /\ last.arg <= 20) =>
               IsNonZeroRow(response, MULTICLASS_SPELL_SLOTS[last.arg])
        /\ last.arg > 20 => IsNonZeroRow(response, MULTICLASS_SPELL_SLOTS[20])
        /\ last.arg = 5 => response = ("1st" :> 4) @@ ("2nd" :> 3) @@ ("3rd" :> 2)

\* the slots of a caster level above 20 have been looked up and are those of
\* level 20
C12_Witness ==
    /\ CalledSpellSlots
    /\ last.arg > 20
    /\ DOMAIN response = {Ordinal(i) : i \in 1..9}
    /\ response["7th"] = 2 /\ response["9th"] = 1

\* the hit die of a class entry: the one it stores, else the one its class
\* name has, else d8
DieOf(cls) ==
    IF "hit_die" \in DOMAIN cls THEN cls["hit_die"]
    ELSE IF "name" \in DOMAIN cls /\ cls["name"] \in DOMAIN CLASS_HIT_DICE
         THEN CLASS_HIT_DICE[cls["name"]]
         ELSE "d8"

\* the sum of the levels of the classes that use a die
RECURSIVE LevelsOnDie(_, _)
LevelsOnDie(classes, die) ==
    IF classes = <<>> THEN 0
    ELSE (IF DieOf(Head(classes)) = die THEN EntryLevel(Head(classes)) ELSE 0)
             + LevelsOnDie(Tail(classes), die)

\* the sum of the counts of a pool
RECURSIVE PoolTotal(_)
PoolTotal(pool) ==
    IF DOMAIN pool = {} THEN 0
    ELSE LET die == CHOOSE d \in DOMAIN pool : TRUE
         IN  pool[die] + PoolTotal(Del(pool, die))

\* the total level of a class list
RECURSIVE TotalLevel(_)
TotalLevel(classes) ==
    IF classes = <<>> THEN 0 ELSE EntryLevel(Head(classes)) + TotalLevel(Tail(classes))

CalledHitDice == last.route = "calculate_hit_dice"

\* C13: for every list of class entries the hit-dice pool has one entry per
\* die type in use, holding the sum of the levels of the classes that use the
\* die (an unknown name with no stored die counts as d8), and the counts of
\* the pool add up to the total level.
C13_HitDicePoolSumsLevels ==
    CalledHitDice =>
        /\ DOMAIN response = {DieOf(last.arg[i]) : i \in 1..Len(last.arg)}
        /\ \A die \in DOMAIN response : response[die] = LevelsOnDie(last.arg, die)
        /\ PoolTotal(response) = TotalLevel(last.arg)

\* the pool of two classes has been computed, one of an unknown name with no
\* stored die and one of a known d8 class: one d8 entry holds both levels
C13_Witness ==
    /\ CalledHitDice
    /\ Len(last.arg) = 2
    /\ \E i, j \in 1..2 :
           /\ "hit_die" \notin DOMAIN last.arg[i]
           /\ "name" \in DOMAIN last.arg[i]
           /\ last.arg[i]["name"] \notin DOMAIN CLASS_HIT_DICE
           /\ "name" \in DOMAIN last.arg[j] /\ last.arg[j]["name"] = Druid
           /\ DOMAIN response = {"d8"}
           /\ response["d8"] = EntryLevel(last.arg[i]) + EntryLevel(last.arg[j])
           /\ EntryLevel(last.arg[i]) > 0 /\ EntryLevel(last.arg[j]) > 0

CalledProficiencyBonus == last.route = "calculate_proficiency_bonus"

\* C14: the proficiency bonus is 2 for total levels 1-4, 3 for 5-8, 4 for
\* 9-12, 5 for 13-16 and 6 for 17-20, and 2 for every total level below 5,
\* 0 included.
C14_ProficiencyBonusByLevel ==
    CalledProficiencyBonus =>
        /\ last.arg < 5 => response = 2
        /\ (5 <= last.arg /\ last.arg <= 8) => response = 3
        /\ (9 <= last.arg /\ last.arg <= 12) => response = 4
        /\ (13 <= last.arg /\ last.arg <= 16) => response = 5
        /\ (17 <= last.arg /\ last.arg <= 20) => response = 6

\* the bonus of total level 17 has been computed and is 6
C14_Witness == CalledProficiencyBonus /\ last.arg = 17 /\ response = 6

(***************************************************************************)
(* SpecPrereq: calls of check_multiclass_prerequisites.                    *)
(***************************************************************************)
UpperChar(c) ==
    IF \E n \in 1..26 : LowerChars[n] = c
    THEN UpperChars[CHOOSE n \in 1..26 : LowerChars[n] = c]
    ELSE c

IsLetter(c) == \E n \in 1..26 : LowerChars[n] = c \/ UpperChars[n] = c

\* str.title(): a letter that follows no letter in upper case, the other
\* letters in lower case
Title(s) ==
    [i \in 1..Len(s) |->
        IF i = 1 \/ ~IsLetter(s[i - 1]) THEN UpperChar(s[i]) ELSE LowerChar(s[i])]

\* the characters of the ability keys
AbilityChars ==
    [strength |-> <<"s", "t", "r", "e", "n", "g", "t", "h">>,
     dexterity |-> <<"d", "e", "x", "t", "e", "r", "i", "t", "y">>,
     constitution |-> <<"c", "o", "n", "s", "t", "i", "t", "u", "t", "i", "o", "n">>,
     intelligence |-> <<"i", "n", "t", "e", "l", "l", "i", "g", "e", "n", "c", "e">>,
     wisdom |-> <<"w", "i", "s", "d", "o", "m">>,
     charisma |-> <<"c", "h", "a", "r", "i", "s", "m", "a">>]

\* prereqs.items(): every entry of the table lists its abilities in the order
\* strength, dexterity, intelligence, wisdom, charisma
PrereqItems(prereqs) ==
    LET listed == <<"strength", "dexterity", "constitution", "intelligence",
                    "wisdom", "charisma">>
    IN  SelectSeq(listed, LAMBDA ability : ability \in DOMAIN prereqs)

\* f"{class_name} requires {ability.title()} {minimum}"
RequiresMessage(class_name, ability, minimum) ==
    class_name \o <<" ", "r", "e", "q", "u", "i", "r", "e", "s", " ">>
        \o Title(AbilityChars[ability]) \o <<" ">> \o IntToText(minimum)

\* check_multiclass_prerequisites with a score that equals the minimum failing
check_multiclass_prerequisites_strict(ability_scores, class_name) ==
    LET prereqs == Get(MULTICLASS_PREREQUISITES, class_name, EmptyDict)
        items == PrereqItems(prereqs)
        failing == {i \in 1..Len(items) :
                       Get(ability_scores, items[i], 0) <= prereqs[items[i]]}
    IN  IF failing = {} THEN [valid |-> TRUE, message |-> <<>>]
        ELSE LET i == CHOOSE i \in failing : \A j \in failing : i <= j
             IN  [valid |-> FALSE,
                  message |-> RequiresMessage(class_name, items[i], prereqs[items[i]])]

\* the pair (valid, message) as a record
check_multiclass_prerequisites(ability_scores, class_name) ==
    LET prereqs == Get(MULTICLASS_PREREQUISITES, class_name, EmptyDict)
        items == PrereqItems(prereqs)
        failing == {i \in 1..Len(items) :
                       Get(ability_scores, items[i], 0) < prereqs[items[i]]}
    IN  IF failing = {} THEN [valid |-> TRUE, message |-> <<>>]
        ELSE LET i == CHOOSE i \in failing : \A j \in failing : i <= j
             IN  [valid |-> FALSE,
                  message |-> RequiresMessage(class_name, items[i], prereqs[items[i]])]

\* the ability scores of a call: four abilities each missing, 12 or 13, and
\* intelligence alone
ScoreCards ==
    Forms([ability \in {"strength", "dexterity", "wisdom", "charisma"} |-> {12, 13}])
        \cup {"intelligence" :> 12, "intelligence" :> 14}

\* the classes of the table, a name in another case and a name it lacks
PrereqClassNames == DOMAIN MULTICLASS_PREREQUISITES \cup {Lower(Fighter), <<"X">>}

CheckMulticlassPrerequisites ==
    \E ability_scores \in ScoreCards, class_name \in PrereqClassNames :
        Called("check_multiclass_prerequisites",
               [ability_scores |-> ability_scores, class_name |-> class_name],
               check_multiclass_prerequisites(ability_scores, class_name))

InitPrereq ==
    /\ monsters = SrdSample
    /\ character = DEFAULT_PLAYER_DATA
    /\ summoned = EmptyDict
    /\ last = NoRequest
    /\ response = 0

NextPrereq == CheckMulticlassPrerequisites

SpecPrereq == InitPrereq /\ [][NextPrereq]_vars

\* the score a character has in an ability, 0 when it has none
ScoreIn(ability_scores, ability) ==
    IF ability \in DOMAIN ability_scores THEN ability_scores[ability] ELSE 0

\* the abilities a class requires, in the order its table entry lists them
RequiredInOrder(class_name) ==
    CASE class_name \in {Barbarian, Fighter} -> <<"strength">>
      [] class_name \in {Bard, Sorcerer, Warlock} -> <<"charisma">>
      [] class_name \in {Cleric, Druid} -> <<"wisdom">>
      [] class_name \in {Monk, Ranger} -> <<"dexterity", "wisdom">>
      [] class_name = Paladin -> <<"strength", "charisma">>
      [] class_name = Rogue -> <<"dexterity">>
      [] class_name = Wizard -> <<"intelligence">>
      [] OTHER -> <<>>

\* how a reason spells an ability
Capitalised(ability) ==
    CASE ability = "strength" -> <<"S", "t", "r", "e", "n", "g", "t", "h">>
      [] ability = "dexterity" -> <<"D", "e", "x", "t", "e", "r", "i", "t", "y">>
      [] ability = "intelligence" ->
             <<"I", "n", "t", "e", "l", "l", "i", "g", "e", "n", "c", "e">>
      [] ability = "wisdom" -> <<"W", "i", "s", "d", "o", "m">>
      [] ability = "charisma" -> <<"C", "h", "a", "r", "i", "s", "m", "a">>

CalledPrerequisites == last.route = "check_multiclass_prerequisites"

BeastType == <<"b", "e", "a", "s", "t">>

ElementalType == <<"e", "l", "e", "m", "e", "n", "t", "a", "l">>

FeyType == <<"f", "e", "y">>

CelestialType == <<"c", "e", "l", "e", "s", "t", "i", "a", "l">>

FamiliarNames ==
    <<<<"B", "a", "t">>, <<"C", "a", "t">>, <<"C", "r", "a", "b">>,
      <<"F", "r", "o", "g">>, <<"H", "a", "w", "k">>,
      <<"L", "i", "z", "a", "r", "d">>,
      <<"O", "c", "t", "o", "p", "u", "s">>, <<"O", "w", "l">>,
      <<"P", "o", "i", "s", "o", "n", "o", "u", "s", " ", "S", "n", "a", "k", "e">>,
      <<"F", "i", "s", "h">>, <<"R", "a", "t">>, <<"R", "a", "v", "e", "n">>,
      <<"S", "e", "a", " ", "H", "o", "r", "s", "e">>,
      <<"S", "p", "i", "d", "e", "r">>, <<"W", "e", "a", "s", "e", "l">>>>

SteedNames ==
    <<<<"W", "a", "r", "h", "o", "r", "s", "e">>, <<"P", "o", "n", "y">>,
      <<"C", "a", "m", "e", "l">>, <<"E", "l", "k">>,
      <<"M", "a", "s", "t", "i", "f", "f">>>>

SPELL_CREATURE_MAPPINGS ==
    ("Conjure Animals" :> [cr_max |-> 2, types |-> <<BeastType>>]) @@
    ("Conjure Minor Elementals" :> [cr_max |-> 2, types |-> <<ElementalType>>]) @@
    ("Conjure Woodland Beings" :> [cr_max |-> 2, types |-> <<FeyType>>]) @@
    ("Conjure Celestial" :> [cr_max |-> 4, types |-> <<CelestialType>>]) @@
    ("Conjure Elemental" :> [cr_max |-> 5, types |-> <<ElementalType>>]) @@
    ("Conjure Fey" :> [cr_max |-> 6, types |-> <<FeyType, BeastType>>]) @@
    ("Find Familiar" :>
        [cr_max |-> 0, types |-> <<BeastType>>, specific |-> FamiliarNames]) @@
    ("Find Steed" :>
        [cr_max |-> 2, types |-> <<BeastType>>, specific |-> SteedNames])

\* the elements of a sequence
Range(seq) == {seq[i] : i \in 1..Len(seq)}

\* t in text, for texts
Contains(text, t) ==
    \E i \in 0..(Len(text) - Len(t)) : SubSeq(text, i + 1, i + Len(t)) = t

\* str.split()[0]: the first run of characters that are not blanks; <<>>
\* where split() is empty
FirstWord(s) ==
    LET t == LStrip(s)
        blanks == {i \in 1..Len(t) : IsSpace(t[i])}
        end == IF blanks = {} THEN Len(t)
               ELSE (CHOOSE i \in blanks : \A j \in blanks : i <= j) - 1
    IN  SubSeq(t, 1, end)

\* float(text) as the fraction num / den with den > 0, for a text of blanks,
\* a sign, digits and a point; ok is FALSE where float raises ValueError.  The
\* other spellings float reads (exponents, inf, nan, underscores) take
\* letters the catalogs drawn do not put in a challenge text.
ParseFloat(text) ==
    LET t == Strip(text)
        signed == t # <<>> /\ t[1] \in {"+", "-"}
        digits == IF signed THEN Tail(t) ELSE t
        points == {i \in 1..Len(digits) : digits[i] = "."}
        whole == SelectSeq(digits, IsDigit)
        ok == /\ whole # <<>>
              /\ Cardinality(points) <= 1
              /\ \A i \in 1..Len(digits) : IsDigit(digits[i]) \/ digits[i] = "."
        decimals == IF points = {} THEN 0 ELSE Len(digits) - (CHOOSE i \in points : TRUE)
    IN  IF ok
        THEN [ok |-> TRUE,
              num |-> IF signed /\ t[1] = "-" THEN 0 - DigitsValue(whole)
                      ELSE DigitsValue(whole),
              den |-> 10 ^ decimals]
        ELSE [ok |-> FALSE, num |-> 0, den |-> 1]

\* challenge_rating with a text that has no "/" read whole, not by its first
\* word
challenge_rating_whole(cr_str) ==
    LET zero == [num |-> 0, den |-> 1]
        slashes == {i \in 1..Len(cr_str) : cr_str[i] = "/"}
    IN  IF slashes # {}
        THEN IF Cardinality(slashes) # 1 THEN zero
             ELSE LET i == CHOOSE i \in slashes : TRUE
                      num == ParseFloat(SubSeq(cr_str, 1, i - 1))
                      denom == ParseFloat(SubSeq(cr_str, i + 1, Len(cr_str)))
                  IN  IF num.ok /\ denom.ok /\ denom.num > 0
                      THEN [num |-> num.num * denom.den, den |-> num.den * denom.num]
                      ELSE zero
        ELSE LET cr == ParseFloat(cr_str)
             IN  IF cr.ok THEN [num |-> cr.num, den |-> cr.den] ELSE zero

\* the challenge rating lines 291-299 read from a text, as a fraction
\* num / den with den > 0
challenge_rating(cr_str) ==
    LET zero == [num |-> 0, den |-> 1]
        slashes == {i \in 1..Len(cr_str) : cr_str[i] = "/"}
    IN  IF slashes # {}
        THEN IF Cardinality(slashes) # 1 THEN zero
             ELSE LET i == CHOOSE i \in slashes : TRUE
                      num == ParseFloat(SubSeq(cr_str, 1, i - 1))
                      denom == ParseFloat(SubSeq(cr_str, i + 1, Len(cr_str)))
                  IN  IF num.ok /\ denom.ok /\ denom.num # 0
                      THEN IF denom.num > 0
                           THEN [num |-> num.num * denom.den,
                                 den |-> num.den * denom.num]
                           ELSE [num |-> 0 - num.num * denom.den,
                                 den |-> num.den * (0 - denom.num)]
                      ELSE zero
        ELSE LET cr == ParseFloat(FirstWord(cr_str))
             IN  IF FirstWord(cr_str) # <<>> /\ cr.ok
                 THEN [num |-> cr.num, den |-> cr.den]
                 ELSE zero

\* MatchesSpecific with the name compared as it is spelled
MatchesSpecificExactCase(monster, specific_names) ==
    Get(monster, "name", <<>>) \in Range(specific_names)

\* line 282: the name, in lower case, is one of specific_names
MatchesSpecific(monster, specific_names) ==
    Lower(Get(monster, "name", <<>>)) \in Range(specific_names)

\* lines 291-305: the challenge rating is at most cr_max and the meta text, in
\* lower case, contains one of the types
MatchesFilter(monster, cr_max, types) ==
    LET cr == challenge_rating(Get(monster, "Challenge", <<"0">>))
        meta == Lower(Get(monster, "meta", <<>>))
    IN  /\ cr.num <= cr_max * cr.den
        /\ \E i \in 1..Len(types) : Contains(meta, types[i])

\* the code point of a character of a name: a blank, a digit or a letter
CodePoint(c) ==
    IF IsSpace(c) THEN 32
    ELSE IF IsDigit(c) THEN 48 + DigitVal(c)
    ELSE IF \E n \in 1..26 : UpperChars[n] = c
         THEN 64 + (CHOOSE n \in 1..26 : UpperChars[n] = c)
         ELSE 96 + (CHOOSE n \in 1..26 : LowerChars[n] = c)

\* a <= b for str
RECURSIVE TextLessEq(_, _)
TextLessEq(a, b) ==
    IF a = <<>> THEN TRUE
    ELSE IF b = <<>> THEN FALSE
    ELSE IF CodePoint(Head(a)) # CodePoint(Head(b))
         THEN CodePoint(Head(a)) < CodePoint(Head(b))
         ELSE TextLessEq(Tail(a), Tail(b))

\* sorted() with each record put before the records of the same name
RECURSIVE sorted_by_name_unstable(_)
sorted_by_name_unstable(creatures) ==
    IF creatures = <<>> THEN <<>>
    ELSE LET front == sorted_by_name_unstable(SubSeq(creatures, 1, Len(creatures) - 1))
             x == creatures[Len(creatures)]
             before == {i \in 1..Len(front) :
                           /\ TextLessEq(Get(front[i], "name", <<>>), Get(x, "name", <<>>))
                           /\ Get(front[i], "name", <<>>) # Get(x, "name", <<>>)}
         IN  SubSeq(front, 1, Cardinality(before)) \o <<x>>
                 \o SubSeq(front, Cardinality(before) + 1, Len(front))

\* sorted(creatures, key=lambda x: x.get('name', '')): a stable sort, each
\* record put after the records sorted so far whose name is not greater
RECURSIVE sorted_by_name(_)
sorted_by_name(creatures) ==
    IF creatures = <<>> THEN <<>>
    ELSE LET front == sorted_by_name(SubSeq(creatures, 1, Len(creatures) - 1))
             x == creatures[Len(creatures)]
             before == {i \in 1..Len(front) :
                           TextLessEq(Get(front[i], "name", <<>>), Get(x, "name", <<>>))}
         IN  SubSeq(front, 1, Cardinality(before)) \o <<x>>
                 \o SubSeq(front, Cardinality(before) + 1, Len(front))

\* get_summonable_creatures over the catalog load_srd_monsters() returns
get_summonable_creatures(catalog, spell_name) ==
    IF spell_name \notin DOMAIN SPELL_CREATURE_MAPPINGS THEN <<>>
    ELSE LET mapping == SPELL_CREATURE_MAPPINGS[spell_name]
             specific_names == [i \in 1..Len(mapping["specific"]) |->
                                   Lower(mapping["specific"][i])]
             cr_max == mapping["cr_max"]
             types == [i \in 1..Len(mapping["types"]) |-> Lower(mapping["types"][i])]
             creatures ==
                 IF "specific" \in DOMAIN mapping
                 THEN SelectSeq(catalog,
                                LAMBDA monster : MatchesSpecific(monster, specific_names))
                 ELSE SelectSeq(catalog,
                                LAMBDA monster : MatchesFilter(monster, cr_max, types))
         IN  sorted_by_name(creatures)

\* a catalog record with the keys get_summonable_creatures reads
Record(name, challenge, meta) ==
    ("name" :> name) @@ ("Challenge" :> challenge) @@ ("meta" :> meta)

TinyBeast == <<"T", "i", "n", "y", " ", "b", "e", "a", "s", "t">>

MediumBeast == <<"M", "e", "d", "i", "u", "m", " ", "B", "e", "a", "s", "t">>

LargeBeast == <<"L", "a", "r", "g", "e", " ", "b", "e", "a", "s", "t">>

SmallFey == <<"S", "m", "a", "l", "l", " ", "f", "e", "y">>

\* the records the catalogs are made of: names of both lists and of neither,
\* in either case, two records of one name, beasts and others, challenge
\* texts that are a number, a fraction, a number followed by words, a
\* fraction followed by words and empty, and a record with the meta key alone
CatalogRecords ==
    {Record(<<"B", "a", "t">>, <<"1", "/", "4", " ", "X", "P">>, TinyBeast),
     Record(<<"o", "w", "l">>, <<"2">>, <<"F", "i", "e", "n", "d">>),
     Record(Wolf, <<"1", "/", "4">>, MediumBeast),
     Record(Wolf, <<>>, BeastType),
     Record(<<"P", "o", "n", "y">>, <<"5", " ", "X", "P">>, LargeBeast),
     Record(<<"D", "r", "y", "a", "d">>, <<"5", "/", "2">>, SmallFey),
     "meta" :> BeastType}

Catalogs == UNION {[1..k -> CatalogRecords] : k \in 0..MaxLen}

\* spells with a name list, spells with a filter, and a spell with no mapping
SpellNames ==
    {"Find Familiar", "Find Steed", "Conjure Animals", "Conjure Fey", "Fireball"}

GetSummonableCreatures ==
    \E spell_name \in SpellNames :
        Called("get_summonable_creatures", spell_name,
               get_summonable_creatures(monsters, spell_name))

InitResolve ==
    /\ monsters \in Catalogs
    /\ character = DEFAULT_PLAYER_DATA
    /\ summoned = EmptyDict
    /\ last = NoRequest
    /\ response = 0

NextResolve == GetSummonableCreatures

SpecResolve == InitResolve /\ [][NextResolve]_vars

CalledResolve == last.route = "get_summonable_creatures"

\* the spell's mapping has an explicit name list
HasNameList(spell_name) ==
    /\ spell_name \in DOMAIN SPELL_CREATURE_MAPPINGS
    /\ "specific" \in DOMAIN SPELL_CREATURE_MAPPINGS[spell_name]

\* the spell's mapping has a challenge limit and type keywords only
HasFilter(spell_name) ==
    /\ spell_name \in DOMAIN SPELL_CREATURE_MAPPINGS
    /\ "specific" \notin DOMAIN SPELL_CREATURE_MAPPINGS[spell_name]

NameOf(record) == IF "name" \in DOMAIN record THEN record["name"] ELSE <<>>

SameIgnoringCase(a, b) ==
    Len(a) = Len(b) /\ \A i \in 1..Len(a) : LowerChar(a[i]) = LowerChar(b[i])

\* the record's name is one of the names the spell lists, case ignored
Listed(record, spell_name) ==
    LET names == SPELL_CREATURE_MAPPINGS[spell_name]["specific"]
    IN  \E i \in 1..Len(names) : SameIgnoringCase(NameOf(record), names[i])

\* how often a record stands in a sequence
Count(seq, record) == Cardinality({i \in 1..Len(seq) : seq[i] = record})

\* result holds exactly the records of the catalog that satisfy Wanted, each
\* as often as the catalog does
ExactlyThose(result, catalog, Wanted(_)) ==
    \A record \in Range(result) \cup Range(catalog) :
        Count(result, record) = IF Wanted(record) THEN Count(catalog, record) ELSE 0

\* the orderings of a catalog
Reordered(catalog) ==
    {[i \in 1..Len(catalog) |-> catalog[p[i]]] : p \in Permutations(1..Len(catalog))}

DistinctNames(catalog) ==
    \A i, j \in 1..Len(catalog) : i # j => NameOf(catalog[i]) # NameOf(catalog[j])

\* C16: for a spell with an explicit name list the result holds exactly the
\* catalog entries whose name is a listed name, case ignored, whatever their
\* challenge rating and type; and for a catalog of distinct names every
\* ordering of the catalog gives the same result.
C16_NameListDecides ==
    (CalledResolve /\ HasNameList(last.arg)) =>
        /\ ExactlyThose(response, monsters, LAMBDA record : Listed(record, last.arg))
        /\ DistinctNames(monsters) =>
               \A catalog \in Reordered(monsters) :
                   get_summonable_creatures(catalog, last.arg) = response

\* Find Familiar has been resolved over a catalog that holds the fiend "owl"
\* of challenge 2 before "Bat": both are returned, Bat first
C16_Witness ==
    /\ CalledResolve
    /\ last.arg = "Find Familiar"
    /\ Len(monsters) = 2
    /\ monsters[1] = Record(<<"o", "w", "l">>, <<"2">>, <<"F", "i", "e", "n", "d">>)
    /\ NameOf(monsters[2]) = <<"B", "a", "t">>
    /\ response = <<monsters[2], monsters[1]>>

\* the type text of a record contains a keyword of the spell, case ignored
TypeAllowed(record, spell_name) ==
    LET keywords == SPELL_CREATURE_MAPPINGS[spell_name]["types"]
        meta == IF "meta" \in DOMAIN record THEN record["meta"] ELSE <<>>
    IN  \E k \in 1..Len(keywords) :
            \E at \in 0..(Len(meta) - Len(keywords[k])) :
                \A i \in 1..Len(keywords[k]) :
                    LowerChar(meta[at + i]) = LowerChar(keywords[k][i])

\* the challenge text of a record, "0" when it has none
ChallengeText(record) ==
    IF "Challenge" \in DOMAIN record THEN record["Challenge"] ELSE <<"0">>

\* a plain decimal: digits with at most one point among them
IsPlainDecimal(text) ==
    /\ \E i \in 1..Len(text) : IsDigit(text[i])
    /\ \A i \in 1..Len(text) : IsDigit(text[i]) \/ text[i] = "."
    /\ Cardinality({i \in 1..Len(text) : text[i] = "."}) <= 1

\* the value of a plain decimal is at most a limit
DecimalAtMost(text, limit) == ParseFloat(text).num <= limit * ParseFloat(text).den

\* n / d is at most a limit, for decimals n and d with d not 0
FractionAtMost(n, d, limit) ==
    IF ParseFloat(d).num > 0
    THEN ParseFloat(n).num * ParseFloat(d).den
             <= limit * ParseFloat(n).den * ParseFloat(d).num
    ELSE ParseFloat(n).num * ParseFloat(d).den
             >= limit * ParseFloat(n).den * ParseFloat(d).num

\* the rating of the whole text, read as a plain decimal or as a fraction n/d
\* of plain decimals and 0 otherwise, is at most a limit
WholeTextRatingAtMost(text, limit) ==
    LET bars == {i \in 1..Len(text) :
                    /\ text[i] = "/"
                    /\ IsPlainDecimal(SubSeq(text, 1, i - 1))
                    /\ IsPlainDecimal(SubSeq(text, i + 1, Len(text)))
                    /\ ParseFloat(SubSeq(text, i + 1, Len(text))).num # 0}
    IN  IF IsPlainDecimal(text) THEN DecimalAtMost(text, limit)
        ELSE IF bars # {}
             THEN LET i == CHOOSE i \in bars : TRUE
                  IN  FractionAtMost(SubSeq(text, 1, i - 1),
                                     SubSeq(text, i + 1, Len(text)), limit)
             ELSE 0 <= limit

WordsOf(text) ==
    {w \in (1..Len(text)) \X (1..Len(text)) :
        /\ w[1] <= w[2]
        /\ \A i \in w[1]..w[2] : ~IsSpace(text[i])
        /\ w[1] = 1 \/ IsSpace(text[w[1] - 1])
        /\ w[2] = Len(text) \/ IsSpace(text[w[2] + 1])}

\* a decimal with blanks around it and a sign before it allowed
IsDecimal(text) ==
    LET t == Strip(text)
    IN  /\ t # <<>>
        /\ IsPlainDecimal(IF t[1] \in {"+", "-"} THEN Tail(t) ELSE t)

\* the rating is at most a limit, the rating being: for a text with no "/",
\* its first word read as a decimal; for a text with one "/", the quotient of
\* its two sides read as decimals; and 0 when the text is empty, a side or
\* the word is no decimal, the divisor is 0 or there are more "/"
ReadRatingAtMost(text, limit) ==
    LET bars == {i \in 1..Len(text) : text[i] = "/"}
        words == WordsOf(text)
    IN  IF bars = {}
        THEN IF words = {} THEN 0 <= limit
             ELSE LET w == CHOOSE w \in words : \A v \in words : w[1] <= v[1]
                      word == SubSeq(text, w[1], w[2])
                  IN  IF IsDecimal(word) THEN DecimalAtMost(word, limit) ELSE 0 <= limit
        ELSE IF Cardinality(bars) = 1
             THEN LET i == CHOOSE i \in bars : TRUE
                      n == SubSeq(text, 1, i - 1)
                      d == SubSeq(text, i + 1, Len(text))
                  IN  IF IsDecimal(n) /\ IsDecimal(d) /\ ParseFloat(d).num # 0
                      THEN FractionAtMost(n, d, limit)
                      ELSE 0 <= limit
             ELSE 0 <= limit

NameBefore(a, b) ==
    \E k \in 0..Len(a) :
        /\ k <= Len(b)
        /\ \A i \in 1..k : a[i] = b[i]
        /\ \/ k = Len(a) /\ k < Len(b)
           \/ k < Len(a) /\ k < Len(b) /\ CodePoint(a[k + 1]) < CodePoint(b[k + 1])

\* C18: for every spell name and catalog the result is in non-decreasing
\* order of creature name, and the entries of one name stand in the order
\* they have in the catalog.
C18_SortedByNameStable ==
    CalledResolve =>
        /\ \A i, j \in 1..Len(response) :
               i < j => ~NameBefore(NameOf(response[j]), NameOf(response[i]))
        /\ \A name \in {NameOf(response[i]) : i \in 1..Len(response)} :
               SelectSeq(response, LAMBDA record : NameOf(record) = name)
                   = SelectSeq(monsters,
                               LAMBDA record : /\ NameOf(record) = name
                                               /\ record \in Range(response))

\* Conjure Animals has been resolved over a catalog of a Wolf, a Bat and
\* another Wolf: the Bat is returned first and the wolves in catalog order
C18_Witness ==
    /\ CalledResolve
    /\ Len(monsters) = 3
    /\ NameOf(monsters[1]) = Wolf /\ NameOf(monsters[3]) = Wolf
    /\ monsters[1] # monsters[3]
    /\ NameOf(monsters[2]) = <<"B", "a", "t">>
    /\ response = <<monsters[2], monsters[1], monsters[3]>>


(***************************************************************************)
(* Frame of the hit-point updates.                                         *)
(***************************************************************************)
HpFields == {"current_hp", "temp_hp"}

\* the request handled last is a current-HP or temporary-HP update
HpUpdate(req) == req.route \in HpRoutes

\* the routes that write each HP field (lines 419, 445, 450-452, 489-491)
WritesCurrentHp(req) ==
    req.route \in {"summoned_creatures", "update_summoned"} /\ "current_hp" \in DOMAIN req.form

WritesTempHp(req) ==
    req.route \in {"update_summoned", "update_temp_hp"} /\ "temp_hp" \in DOMAIN req.form

\* the instance after differs from before in at most the fields written
SameButFor(before, after, written) ==
    /\ DOMAIN before \subseteq DOMAIN after
    /\ DOMAIN after \subseteq DOMAIN before \cup written
    /\ \A key \in DOMAIN before \ written : after[key] = before[key]

\* C19: a current-HP or temporary-HP update addressed to an instance changes
\* only the HP fields its form carries, of that instance: every other instance
\* of the collection, and the instance's maximum HP, recorded bonus HP, Mighty
\* Summoner flag and ability scores stay as they are, no instance is added or
\* dropped, and an update addressed to an id that is not in the collection
\* leaves the collection as it is.
C19_HpUpdateFrame ==
    [][HpUpdate(last') =>
          /\ DOMAIN summoned' = DOMAIN summoned
          /\ \A id \in DOMAIN summoned \ {last'.arg} : summoned'[id] = summoned[id]
          /\ last'.arg \notin DOMAIN summoned => summoned' = summoned
          /\ last'.arg \in DOMAIN summoned =>
                 LET before == summoned[last'.arg]
                     after == summoned'[last'.arg]
                 IN  /\ SameButFor(before, after,
                                   {f \in HpFields :
                                       \/ f = "current_hp" /\ WritesCurrentHp(last')
                                       \/ f = "temp_hp" /\ WritesTempHp(last')})
                     /\ after["HP Max"] = before["HP Max"]
                     /\ after["extra_hp"] = before["extra_hp"]
                     /\ after["mighty_summoner"] = before["mighty_summoner"]
                     /\ after["abilities"] = before["abilities"]
                     /\ after["id"] = before["id"]]_vars

\* an update has changed both HP fields of one of two creatures of one summon
\* with Mighty Summoner: the other still stands at its maximum HP without
\* temp HP, and the two agree on everything else but their ids
C19_Witness ==
    /\ HpUpdate(last)
    /\ last.arg \in DOMAIN summoned
    /\ \E other \in DOMAIN summoned \ {last.arg} :
           LET mine == summoned[last.arg]
               theirs == summoned[other]
           IN  /\ "temp_hp" \in DOMAIN mine /\ mine["temp_hp"] > 0
               /\ "temp_hp" \notin DOMAIN theirs
               /\ mine["current_hp"] # mine["HP Max"]
               /\ theirs["current_hp"] = theirs["HP Max"]
               /\ mine["extra_hp"] > 0 /\ mine["mighty_summoner"]
               /\ \A key \in DOMAIN theirs \ {"id", "current_hp"} :
                      mine[key] = theirs[key]

====
